---- MODULE Spec2Model ----
(***************************************************************************)
(* A model of src/server.ts, the fal-ai / OpenAI chat-completions proxy.   *)
(*                                                                         *)
(* Two parts of the program are modelled:                                  *)
(*   - convertMessagesToFalPrompt (lines 78-199), the message-to-prompt    *)
(*     conversion with its two length budgets (ComposeSpec);               *)
(*   - the streaming task of the /v1/chat/completions handler (lines       *)
(*     332-412), which turns cumulative output snapshots into deltas and   *)
(*     writes them as server-sent-event frames (StreamSpec).               *)
(*                                                                         *)
(* Strings of convertMessagesToFalPrompt are run-length encoded, because   *)
(* the two limits are 4800 characters: a string is a sequence of runs, a   *)
(* run [t, n, m] being n consecutive characters of the text t (a literal   *)
(* of the source such as "System:", or a repeated character), contributed  *)
(* by the message of index m (0: by no message).  Lengths, substring(0,L)  *)
(* and trim are computed on the runs exactly as JavaScript computes them   *)
(* on the characters.  Strings of the streaming task are short, and are    *)
(* plain sequences of characters.                                          *)
(***************************************************************************)
EXTENDS Integers, Sequences, FiniteSets, TLC

VARIABLES
    \* ---- convertMessagesToFalPrompt ----
    messages,                       \* the argument
    cpc,                            \* position in the function
    fixed_system_prompt_content,
    conversation_message_blocks,
    remaining_system_limit,
    prompt_history_blocks,
    system_prompt_history_blocks,
    current_prompt_length,
    current_system_history_length,
    promptFull,
    systemHistoryFull,
    i,                              \* index of the fill loop (0-based, as in the source)
    system_prompt_history_content,
    final_prompt,
    final_system_prompt,
    \* ---- streaming task, one per request ----
    pc,                             \* position of the task of each request
    previousOutput,
    seen,                           \* the events consumed so far, as the loop body read them
    pending,                        \* the frame handed to the writer.write being awaited
    frames,                         \* the frames written to the client
    writer,                         \* state of the WritableStream writer
    closeAttempts,                  \* number of calls of writer.close()
    partialField                    \* event.partial of the event the loop body last ran on

composeVars == << messages, cpc, fixed_system_prompt_content, conversation_message_blocks,
                  remaining_system_limit, prompt_history_blocks, system_prompt_history_blocks,
                  current_prompt_length, current_system_history_length, promptFull,
                  systemHistoryFull, i, system_prompt_history_content, final_prompt,
                  final_system_prompt >>

streamVars == << pc, previousOutput, seen, pending, frames, writer, closeAttempts, partialField >>

vars == << composeVars, streamVars >>

-----------------------------------------------------------------------------
(* Program constants and bounds of the model *)

PROMPT_LIMIT == 4800

SYSTEM_PROMPT_LIMIT == 4800

\* longest message list given to convertMessagesToFalPrompt
MaxMessages == 3

\* most events one upstream stream delivers
MaxEvents == 3

\* longest output snapshot of an upstream event
MaxOut == 2

Max(a, b) == IF a >= b THEN a ELSE b

-----------------------------------------------------------------------------
(* Run-length encoded strings *)

Lit(t, n, m) == << [t |-> t, n |-> n, m |-> m] >>

\* the characters trim() removes: here the space and the line feed
IsWhitespace(run) == run.t \in {"sp", "nl"}

RECURSIVE StrLen(_)
StrLen(s) == IF s = << >> THEN 0 ELSE Head(s).n + StrLen(Tail(s))

\* s.substring(0, limit)
RECURSIVE Substring0(_, _)
Substring0(s, limit) ==
    IF s = << >> \/ limit <= 0 THEN << >>
    ELSE IF Head(s).n <= limit
         THEN << Head(s) >> \o Substring0(Tail(s), limit - Head(s).n)
         ELSE << [Head(s) EXCEPT !.n = limit] >>

RECURSIVE TrimStart(_)
TrimStart(s) ==
    IF s = << >> THEN << >>
    ELSE IF IsWhitespace(Head(s)) THEN TrimStart(Tail(s)) ELSE s

RECURSIVE TrimEnd(_)
TrimEnd(s) ==
    IF s = << >> THEN << >>
    ELSE IF IsWhitespace(s[Len(s)]) THEN TrimEnd(SubSeq(s, 1, Len(s) - 1)) ELSE s

\* s.trim()
Trim(s) == TrimEnd(TrimStart(s))

\* blocks.join("")
RECURSIVE Join(_)
Join(blocks) == IF blocks = << >> THEN << >> ELSE Head(blocks) \o Join(Tail(blocks))

\* the runs of s, as contributed by message m
Tagged(s, m) == [k \in DOMAIN s |-> [s[k] EXCEPT !.m = m]]

-----------------------------------------------------------------------------
(* The inputs of convertMessagesToFalPrompt *)

\* the requests being served
Requests == {1, 2}

Roles == {"system", "user", "assistant", "tool"}

\* message.content: null, or a string. The lengths are chosen around the
\* limits. With HalfContent two "Human: " blocks fill PROMPT_LIMIT exactly;
\* with BigContent a "Human: " block fills exactly what the system slot has
\* left beside the shortest system text ("System:", 7 characters, plus the 4
\* reserved); with HugeContent a "Human: " block is exactly PROMPT_LIMIT, and
\* an "Assistant: " block or a "System: " text exceeds its limit. SmallContent
\* has spaces at its ends and quotes the separator of line 167.
NullContent == [isNull |-> TRUE, s |-> << >>]

SmallContent ==
    [isNull |-> FALSE,
     s |-> Lit("sp", 1, 0) \o Lit("x", 1, 0) \o Lit("nl", 2, 0) \o Lit("-------...-----", 25, 0)
           \o Lit("nl", 2, 0) \o Lit("x", 1, 0) \o Lit("sp", 1, 0)]

HalfContent == [isNull |-> FALSE, s |-> Lit("x", (PROMPT_LIMIT \div 2) - 9, 0)]

BigContent == [isNull |-> FALSE, s |-> Lit("x", SYSTEM_PROMPT_LIMIT - 11 - 9, 0)]

HugeContent == [isNull |-> FALSE, s |-> Lit("x", PROMPT_LIMIT - 9, 0)]

Contents == {NullContent, SmallContent, HalfContent, BigContent, HugeContent}

Messages == [role : Roles, content : Contents]

MessageLists == UNION { [1..k -> Messages] : k \in 0..MaxMessages }

-----------------------------------------------------------------------------
(* convertMessagesToFalPrompt *)

\* (content === null || content === undefined) ? "" : String(content)
ContentString(message) == IF message.content.isNull THEN << >> ELSE message.content.s

\* `System: ${content}\n\n`, `Human: ${content}\n\n`, `Assistant: ${content}\n\n`
FormatSystem(content, m) ==
    Lit("System:", 7, m) \o Lit("sp", 1, m) \o Tagged(content, m) \o Lit("nl", 2, m)

FormatHuman(content, m) ==
    Lit("Human:", 6, m) \o Lit("sp", 1, m) \o Tagged(content, m) \o Lit("nl", 2, m)

FormatAssistant(content, m) ==
    Lit("Assistant:", 10, m) \o Lit("sp", 1, m) \o Tagged(content, m) \o Lit("nl", 2, m)

\* what the switch on message.role appends to the system accumulator
SystemPart(message, m) ==
    IF message.role = "system" THEN FormatSystem(ContentString(message), m) ELSE << >>

\* the case "system" without its break
BlockPart_Fallthrough(message, m) ==
    CASE message.role \in {"system", "user"} -> << FormatHuman(ContentString(message), m) >>
      [] message.role = "assistant" -> << FormatAssistant(ContentString(message), m) >>
      [] OTHER -> << >>

\* what the switch on message.role pushes on conversation_message_blocks
BlockPart(message, m) ==
    CASE message.role = "user" -> << FormatHuman(ContentString(message), m) >>
      [] message.role = "assistant" -> << FormatAssistant(ContentString(message), m) >>
      [] OTHER -> << >>

\* the first loop, over messages[1..k]
RECURSIVE SystemAccumulator(_, _)
SystemAccumulator(msgs, k) ==
    IF k = 0 THEN << >> ELSE SystemAccumulator(msgs, k - 1) \o SystemPart(msgs[k], k)

RECURSIVE ConversationBlocks(_, _)
ConversationBlocks(msgs, k) ==
    IF k = 0 THEN << >> ELSE ConversationBlocks(msgs, k - 1) \o BlockPart(msgs[k], k)

SEPARATOR == Lit("nl", 2, 0) \o Lit("-------...-----", 25, 0) \o Lit("nl", 2, 0)

ComposeInit ==
    /\ messages \in MessageLists
    /\ cpc = "partition"
    /\ fixed_system_prompt_content = << >>
    /\ conversation_message_blocks = << >>
    /\ remaining_system_limit = 0
    /\ prompt_history_blocks = << >>
    /\ system_prompt_history_blocks = << >>
    /\ current_prompt_length = 0
    /\ current_system_history_length = 0
    /\ promptFull = FALSE
    /\ systemHistoryFull = FALSE
    /\ i = 0
    /\ system_prompt_history_content = << >>
    /\ final_prompt = << >>
    /\ final_system_prompt = << >>
    /\ pc = [r \in Requests |-> "off"]
    /\ previousOutput = [r \in Requests |-> << >>]
    /\ seen = [r \in Requests |-> << >>]
    /\ partialField = [r \in Requests |-> "absent"]
    /\ pending = [r \in Requests |-> [kind |-> "none", content |-> << >>, finish_reason |-> "null", ev |-> 0]]
    /\ frames = [r \in Requests |-> << >>]
    /\ writer = [r \in Requests |-> "writable"]
    /\ closeAttempts = [r \in Requests |-> 0]

\* step 1: the loop over the messages
Partition ==
    /\ cpc = "partition"
    /\ fixed_system_prompt_content' = SystemAccumulator(messages, Len(messages))
    /\ conversation_message_blocks' = ConversationBlocks(messages, Len(messages))
    /\ cpc' = "truncate"
    /\ UNCHANGED streamVars
    /\ UNCHANGED << messages, remaining_system_limit, prompt_history_blocks,
                    system_prompt_history_blocks, current_prompt_length,
                    current_system_history_length, promptFull, systemHistoryFull, i,
                    system_prompt_history_content, final_prompt, final_system_prompt >>

TruncatedSystem_NoCut(s) == Trim(s)

\* step 2: the hard cut of the system text, then trim()
TruncatedSystem(s) ==
    Trim(IF StrLen(s) > SYSTEM_PROMPT_LIMIT THEN Substring0(s, SYSTEM_PROMPT_LIMIT) ELSE s)

TruncateSystem ==
    /\ cpc = "truncate"
    /\ fixed_system_prompt_content' = TruncatedSystem(fixed_system_prompt_content)
    /\ cpc' = "budget"
    /\ UNCHANGED streamVars
    /\ UNCHANGED << messages, conversation_message_blocks, remaining_system_limit,
                    prompt_history_blocks, system_prompt_history_blocks,
                    current_prompt_length, current_system_history_length, promptFull,
                    systemHistoryFull, i, system_prompt_history_content, final_prompt,
                    final_system_prompt >>

\* step 3: what the system slot has left for the history
RemainingSystemLimit(fixed) ==
    LET space_occupied_by_fixed_system == IF StrLen(fixed) > 0 THEN StrLen(fixed) + 4 ELSE 0
    IN  Max(0, SYSTEM_PROMPT_LIMIT - space_occupied_by_fixed_system)

DeriveBudget ==
    /\ cpc = "budget"
    /\ remaining_system_limit' = RemainingSystemLimit(fixed_system_prompt_content)
    /\ prompt_history_blocks' = << >>
    /\ system_prompt_history_blocks' = << >>
    /\ current_prompt_length' = 0
    /\ current_system_history_length' = 0
    /\ promptFull' = FALSE
    /\ systemHistoryFull' = (RemainingSystemLimit(fixed_system_prompt_content) <= 0)
    /\ i' = Len(conversation_message_blocks) - 1
    /\ cpc' = "fill"
    /\ UNCHANGED streamVars
    /\ UNCHANGED << messages, fixed_system_prompt_content, conversation_message_blocks,
                    system_prompt_history_content, final_prompt, final_system_prompt >>

\* the two tests of the fill loop
FitsPrompt_IgnoresCurrent(length, block_length) == block_length <= PROMPT_LIMIT

FitsPrompt(length, block_length) == length + block_length <= PROMPT_LIMIT

IntoPrompt_NotLatched(full, length, block_length) == FitsPrompt(length, block_length)

\* the block goes to the prompt slot: the slot is not marked full, and it fits
IntoPrompt(full, length, block_length) == ~full /\ FitsPrompt(length, block_length)

FitsSystem(length, block_length, limit) == length + block_length <= limit

IntoSystem_NoContinue(intoPrompt, full, length, block_length, limit) ==
    ~full /\ FitsSystem(length, block_length, limit)

IntoSystem_NotLatched(intoPrompt, full, length, block_length, limit) ==
    ~intoPrompt /\ FitsSystem(length, block_length, limit)

\* the block goes to the system slot: it did not go to the prompt slot (continue,
\* line 142), the system slot is not marked full, and it fits
IntoSystem(intoPrompt, full, length, block_length, limit) ==
    ~intoPrompt /\ ~full /\ FitsSystem(length, block_length, limit)

PromptFullAfter_NeverSet(full, intoPrompt) == full

\* line 144: promptFull = true when the block offered to the prompt slot does not fit
PromptFullAfter(full, intoPrompt) == full \/ ~intoPrompt

Unshift_Push(block, blocks) == blocks \o << block >>

\* blocks.unshift(block)
Unshift(block, blocks) == << block >> \o blocks

\* step 4: one iteration of the fill loop, from the newest block to the oldest
FillStep ==
    /\ cpc = "fill"
    /\ i >= 0
    /\ LET message_block == conversation_message_blocks[i + 1]
           block_length == StrLen(message_block)
           intoPrompt == IntoPrompt(promptFull, current_prompt_length, block_length)
           \* promptFull as the second test reads it
           promptFullNow == PromptFullAfter(promptFull, intoPrompt)
           intoSystem == IntoSystem(intoPrompt, systemHistoryFull,
                                    current_system_history_length, block_length,
                                    remaining_system_limit)
       IN  IF promptFull /\ systemHistoryFull
           THEN \* break
                /\ cpc' = "assemble"
                /\ UNCHANGED << prompt_history_blocks, system_prompt_history_blocks,
                                current_prompt_length, current_system_history_length,
                                promptFull, systemHistoryFull, i >>
           ELSE /\ cpc' = "fill"
                /\ i' = i - 1
                /\ promptFull' = promptFullNow
                /\ prompt_history_blocks' =
                       IF intoPrompt THEN Unshift(message_block, prompt_history_blocks)
                                     ELSE prompt_history_blocks
                /\ current_prompt_length' =
                       IF intoPrompt THEN current_prompt_length + block_length
                                     ELSE current_prompt_length
                /\ system_prompt_history_blocks' =
                       IF intoSystem THEN Unshift(message_block, system_prompt_history_blocks)
                                     ELSE system_prompt_history_blocks
                /\ current_system_history_length' =
                       IF intoSystem THEN current_system_history_length + block_length
                                     ELSE current_system_history_length
                /\ systemHistoryFull' =
                       IF intoPrompt \/ systemHistoryFull THEN systemHistoryFull
                                                          ELSE ~intoSystem
    /\ UNCHANGED streamVars
    /\ UNCHANGED << messages, fixed_system_prompt_content, conversation_message_blocks,
                    remaining_system_limit, system_prompt_history_content, final_prompt,
                    final_system_prompt >>

\* the fill loop ends: i < 0
FillEnd ==
    /\ cpc = "fill"
    /\ i < 0
    /\ cpc' = "assemble"
    /\ UNCHANGED streamVars
    /\ UNCHANGED << messages, fixed_system_prompt_content, conversation_message_blocks,
                    remaining_system_limit, prompt_history_blocks,
                    system_prompt_history_blocks, current_prompt_length,
                    current_system_history_length, promptFull, systemHistoryFull, i,
                    system_prompt_history_content, final_prompt, final_system_prompt >>

FinalSystemPrompt_AlwaysSeparator(fixed, history) == fixed \o SEPARATOR \o history

\* step 5: fixed + SEPARATOR + history, or the one of them that is not empty
FinalSystemPrompt(fixed, history) ==
    LET hasFixedSystem == StrLen(fixed) > 0
        hasSystemHistory == StrLen(history) > 0
    IN  IF hasFixedSystem /\ hasSystemHistory THEN fixed \o SEPARATOR \o history
        ELSE IF hasFixedSystem THEN fixed
        ELSE IF hasSystemHistory THEN history
        ELSE << >>

\* steps 5 and 6: the two strings returned
Assemble ==
    /\ cpc = "assemble"
    /\ system_prompt_history_content' = Trim(Join(system_prompt_history_blocks))
    /\ final_prompt' = Trim(Join(prompt_history_blocks))
    /\ final_system_prompt' =
           FinalSystemPrompt(fixed_system_prompt_content,
                             Trim(Join(system_prompt_history_blocks)))
    /\ cpc' = "done"
    /\ UNCHANGED streamVars
    /\ UNCHANGED << messages, fixed_system_prompt_content, conversation_message_blocks,
                    remaining_system_limit, prompt_history_blocks,
                    system_prompt_history_blocks, current_prompt_length,
                    current_system_history_length, promptFull, systemHistoryFull, i >>

ComposeNext ==
    \/ Partition
    \/ TruncateSystem
    \/ DeriveBudget
    \/ FillStep
    \/ FillEnd
    \/ Assemble

\* convertMessagesToFalPrompt applied to every message list of the bounds
ComposeSpec == ComposeInit /\ [][ComposeNext]_vars

-----------------------------------------------------------------------------
(* The streaming task of the chat-completions handler *)

Chars == {"a", "b"}

\* The output snapshots: the strings of at most MaxOut characters a...a and
\* a...ab. Two of them can be equal, one a proper extension of the other, or
\* differ at the first character or after a common prefix.
Outs ==
    { o \in UNION { [1..n -> Chars] : n \in 0..MaxOut } :
        \A k \in DOMAIN o : o[k] = "b" => k = Len(o) }

\* event.output: a string, or anything else (absent, null, a number)
OutputFields == { [isString |-> TRUE, s |-> o] : o \in Outs } \cup { [isString |-> FALSE, s |-> << >>] }

\* event.partial: a boolean, or anything else
PartialFields == {"true", "false", "absent"}

\* event.error: absent, a falsy value (null, false, 0, ""), or a truthy payload
ErrorFields == {"absent", "falsy", "truthy"}

\* the events of the upstream stream
Events == [output : OutputFields, partial : PartialFields, error : ErrorFields]

\* (event && typeof event.output === 'string') ? event.output : ''
CurrentOutput(event) == IF event.output.isString THEN event.output.s ELSE << >>

\* a partial field that is not a boolean read as false
IsPartial_AbsentIsFinal(event) == event.partial # "true"

\* (event && typeof event.partial === 'boolean') ? event.partial : true
IsPartial(event) == IF event.partial \in {"true", "false"} THEN event.partial = "true" ELSE TRUE

\* (event && event.error) ? event.error : null, as the test `if (errorInfo)` reads it
ErrorInfo(event) == event.error = "truthy"

\* current.startsWith(previous)
StartsWith(current, previous) ==
    /\ Len(previous) <= Len(current)
    /\ SubSeq(current, 1, Len(previous)) = previous

\* current.substring(from), from counted from 0
SubstringFrom(current, from) == SubSeq(current, from + 1, Len(current))

DeltaContent_AlwaysFull(previous, current) == current

\* deltaContent: the suffix that extends the previous snapshot, else the whole snapshot
DeltaContent(previous, current) ==
    IF StartsWith(current, previous) THEN SubstringFrom(current, Len(previous))
    ELSE IF Len(current) > 0 THEN current
    ELSE << >>

\* previousOutput forgotten on a mismatch, and not set to the snapshot after it
NextPreviousOutput_ResetOnly(previous, current) ==
    IF StartsWith(current, previous) THEN current ELSE << >>

\* previousOutput after the event: line 370 resets it to '' on a mismatch, and
\* line 372 then sets it to the snapshot, whatever the branch taken
NextPreviousOutput(previous, current) == current

EmitsChunk_OnlyText(deltaContent, isPartial) == deltaContent # << >>

\* if (deltaContent || !isPartial)
EmitsChunk(deltaContent, isPartial) == deltaContent # << >> \/ ~isPartial

\* isPartial === false ? "stop" : null
FinishReason(isPartial) == IF isPartial = FALSE THEN "stop" ELSE "null"

\* The frames written: `data: ${JSON.stringify(chunk)}\n\n` and `data: [DONE]\n\n`.
\* ev is the number of the event the frame was built for (0: for none).
NoFrame == [kind |-> "none", content |-> << >>, finish_reason |-> "null", ev |-> 0]

ContentChunk(deltaContent, isPartial, ev) ==
    [kind |-> "chunk", content |-> deltaContent, finish_reason |-> FinishReason(isPartial), ev |-> ev]

ErrorChunk(ev) == [kind |-> "error_chunk", content |-> << >>, finish_reason |-> "error", ev |-> ev]

DoneFrame == [kind |-> "done", content |-> << >>, finish_reason |-> "null", ev |-> 0]

ErrorFrame == [kind |-> "error_frame", content |-> << >>, finish_reason |-> "null", ev |-> 0]

\* a write that resolves whatever the state of the stream
WriteResolves_OnAnyStream(r, ok) == ok

\* writer.write(frame) resolves: the stream is writable and the client takes the
\* frame (ok). It rejects when the stream is closed or errored, and when the
\* client is gone, which errors the stream.
WriteResolves(r, ok) == writer[r] = "writable" /\ ok

WriterAfterWrite(r, ok) == IF writer[r] = "writable" /\ ~ok THEN "errored" ELSE writer[r]

FramesAfterWrite(r, frame, ok) == IF WriteResolves(r, ok) THEN Append(frames[r], frame) ELSE frames[r]

\* writer.close() resolves on a writable stream whose client takes the close
CloseResolves(r, ok) == writer[r] = "writable" /\ ok

WriterAfterClose(r, ok) ==
    IF writer[r] # "writable" THEN writer[r] ELSE IF ok THEN "closed" ELSE "errored"

\* what the loop body uses of an event: of an error event its error alone
Seen(event) ==
    IF ErrorInfo(event) THEN [out |-> << >>, partial |-> TRUE, err |-> TRUE]
    ELSE [out |-> CurrentOutput(event), partial |-> IsPartial(event), err |-> FALSE]

\* the conversion that precedes the streaming task has returned
StreamMessages == << [role |-> "user", content |-> SmallContent] >>

StreamInit ==
    /\ messages = StreamMessages
    /\ cpc = "done"
    /\ fixed_system_prompt_content = << >>
    /\ conversation_message_blocks = ConversationBlocks(StreamMessages, 1)
    /\ remaining_system_limit = SYSTEM_PROMPT_LIMIT
    /\ prompt_history_blocks = ConversationBlocks(StreamMessages, 1)
    /\ system_prompt_history_blocks = << >>
    /\ current_prompt_length = StrLen(Join(ConversationBlocks(StreamMessages, 1)))
    /\ current_system_history_length = 0
    /\ promptFull = FALSE
    /\ systemHistoryFull = FALSE
    /\ i = -1
    /\ system_prompt_history_content = << >>
    /\ final_prompt = Trim(Join(ConversationBlocks(StreamMessages, 1)))
    /\ final_system_prompt = << >>
    /\ pc = [r \in Requests |-> IF r = 1 THEN "request" ELSE "off"]
    /\ previousOutput = [r \in Requests |-> << >>]
    /\ seen = [r \in Requests |-> << >>]
    /\ partialField = [r \in Requests |-> "absent"]
    /\ pending = [r \in Requests |-> NoFrame]
    /\ frames = [r \in Requests |-> << >>]
    /\ writer = [r \in Requests |-> "writable"]
    /\ closeAttempts = [r \in Requests |-> 0]

\* lines 320-335: the writer is made, the task starts and calls fal.stream
StartStream(r) ==
    /\ pc[r] = "request"
    /\ pc' = [pc EXCEPT ![r] = "stream"]
    /\ previousOutput' = [previousOutput EXCEPT ![r] = << >>]
    /\ UNCHANGED << seen, partialField, pending, frames, writer, closeAttempts >>
    /\ UNCHANGED composeVars

\* await fal.stream(...) resolves, or rejects
AwaitStream(r) ==
    /\ pc[r] = "stream"
    /\ \E ok \in BOOLEAN : pc' = [pc EXCEPT ![r] = IF ok THEN "next" ELSE "catch"]
    /\ UNCHANGED << previousOutput, seen, partialField, pending, frames, writer, closeAttempts >>
    /\ UNCHANGED composeVars

PreviousOutputOf_Shared(r) == previousOutput[1]

\* line 334: previousOutput is a local of the task of one request
PreviousOutputOf(r) == previousOutput[r]

AfterChunkBuilt_NotAwaited == "next"

\* line 386: the loop body awaits the write of the chunk it built
AfterChunkBuilt == "write_chunk"

\* lines 338-386: the loop body on one event, up to the write it awaits
LoopBody(r, event) ==
    LET currentOutput == CurrentOutput(event)
        isPartial == IsPartial(event)
        errorInfo == ErrorInfo(event)
        deltaContent == DeltaContent(PreviousOutputOf(r), currentOutput)
        ev == Len(seen[r]) + 1
    IN  /\ seen' = [seen EXCEPT ![r] = Append(@, Seen(event))]
        /\ partialField' = [partialField EXCEPT ![r] =
               IF errorInfo THEN "absent" ELSE event.partial]
        /\ IF errorInfo
           THEN /\ pending' = [pending EXCEPT ![r] = ErrorChunk(ev)]
                /\ pc' = [pc EXCEPT ![r] = "write_error_chunk"]
                /\ UNCHANGED previousOutput
           ELSE /\ previousOutput' = [previousOutput EXCEPT ![r] =
                       NextPreviousOutput(PreviousOutputOf(r), currentOutput)]
                /\ IF EmitsChunk(deltaContent, isPartial)
                   THEN /\ pending' = [pending EXCEPT ![r] =
                               ContentChunk(deltaContent, isPartial, ev)]
                        /\ pc' = [pc EXCEPT ![r] = AfterChunkBuilt]
                   ELSE /\ pending' = [pending EXCEPT ![r] = NoFrame]
                        /\ pc' = [pc EXCEPT ![r] = "next"]

\* the loop takes the next event and runs its body up to the write it awaits
NextEvent(r) ==
    /\ pc[r] = "next"
    /\ Len(seen[r]) < MaxEvents
    /\ \E event \in Events : LoopBody(r, event)
    /\ UNCHANGED << frames, writer, closeAttempts >>
    /\ UNCHANGED composeVars

AfterLoop_NoDone == "close"

\* line 390: past the loop the task writes [DONE]
AfterLoop == "write_done"

\* the upstream stream ends
StreamEnd(r) ==
    /\ pc[r] = "next"
    /\ pc' = [pc EXCEPT ![r] = AfterLoop]
    /\ UNCHANGED << previousOutput, seen, partialField, pending, frames, writer, closeAttempts >>
    /\ UNCHANGED composeVars

\* the iteration of the upstream stream throws
StreamThrows(r) ==
    /\ pc[r] = "next"
    /\ pc' = [pc EXCEPT ![r] = "catch"]
    /\ UNCHANGED << previousOutput, seen, partialField, pending, frames, writer, closeAttempts >>
    /\ UNCHANGED composeVars

\* line 386: await writer.write of the content chunk
WriteChunk(r) ==
    /\ pc[r] = "write_chunk"
    /\ \E ok \in BOOLEAN :
         /\ frames' = [frames EXCEPT ![r] = FramesAfterWrite(r, pending[r], ok)]
         /\ writer' = [writer EXCEPT ![r] = WriterAfterWrite(r, ok)]
         /\ pc' = [pc EXCEPT ![r] = IF WriteResolves(r, ok) THEN "next" ELSE "catch"]
    /\ pending' = [pending EXCEPT ![r] = NoFrame]
    /\ UNCHANGED << previousOutput, seen, partialField, closeAttempts >>
    /\ UNCHANGED composeVars

AfterErrorChunk_NoBreak == "next"

\* where the loop goes after the error chunk is written: break
AfterErrorChunk == AfterLoop

\* lines 359-360: await writer.write of the error chunk, then break
WriteErrorChunk(r) ==
    /\ pc[r] = "write_error_chunk"
    /\ \E ok \in BOOLEAN :
         /\ frames' = [frames EXCEPT ![r] = FramesAfterWrite(r, pending[r], ok)]
         /\ writer' = [writer EXCEPT ![r] = WriterAfterWrite(r, ok)]
         /\ pc' = [pc EXCEPT ![r] = IF WriteResolves(r, ok) THEN AfterErrorChunk ELSE "catch"]
    /\ pending' = [pending EXCEPT ![r] = NoFrame]
    /\ UNCHANGED << previousOutput, seen, partialField, closeAttempts >>
    /\ UNCHANGED composeVars

\* line 390: await writer.write of [DONE]
WriteDone(r) ==
    /\ pc[r] = "write_done"
    /\ \E ok \in BOOLEAN :
         /\ frames' = [frames EXCEPT ![r] = FramesAfterWrite(r, DoneFrame, ok)]
         /\ writer' = [writer EXCEPT ![r] = WriterAfterWrite(r, ok)]
         /\ pc' = [pc EXCEPT ![r] = IF WriteResolves(r, ok) THEN "close" ELSE "catch"]
    /\ UNCHANGED << previousOutput, seen, partialField, pending, closeAttempts >>
    /\ UNCHANGED composeVars

\* line 391: await writer.close()
Close(r) ==
    /\ pc[r] = "close"
    /\ closeAttempts' = [closeAttempts EXCEPT ![r] = @ + 1]
    /\ \E ok \in BOOLEAN :
         /\ writer' = [writer EXCEPT ![r] = WriterAfterClose(r, ok)]
         /\ pc' = [pc EXCEPT ![r] = IF CloseResolves(r, ok) THEN "finished" ELSE "catch"]
    /\ UNCHANGED << previousOutput, seen, partialField, pending, frames >>
    /\ UNCHANGED composeVars

AfterFailedErrorFrame_NoClose == "rejected"

\* where the catch block goes when a write of its try block rejects: the inner catch
AfterFailedErrorFrame == "final_close"

\* line 398: the catch block writes the error frame
CatchWriteError(r) ==
    /\ pc[r] = "catch"
    /\ \E ok \in BOOLEAN :
         /\ frames' = [frames EXCEPT ![r] = FramesAfterWrite(r, ErrorFrame, ok)]
         /\ writer' = [writer EXCEPT ![r] = WriterAfterWrite(r, ok)]
         /\ pc' = [pc EXCEPT ![r] =
                IF WriteResolves(r, ok) THEN "catch_done" ELSE AfterFailedErrorFrame]
    /\ UNCHANGED << previousOutput, seen, partialField, pending, closeAttempts >>
    /\ UNCHANGED composeVars

\* line 405: the catch block writes [DONE]
CatchWriteDone(r) ==
    /\ pc[r] = "catch_done"
    /\ \E ok \in BOOLEAN :
         /\ frames' = [frames EXCEPT ![r] = FramesAfterWrite(r, DoneFrame, ok)]
         /\ writer' = [writer EXCEPT ![r] = WriterAfterWrite(r, ok)]
         /\ pc' = [pc EXCEPT ![r] = IF WriteResolves(r, ok) THEN "catch_close" ELSE "final_close"]
    /\ UNCHANGED << previousOutput, seen, partialField, pending, closeAttempts >>
    /\ UNCHANGED composeVars

\* line 406: the catch block closes the writer
CatchClose(r) ==
    /\ pc[r] = "catch_close"
    /\ closeAttempts' = [closeAttempts EXCEPT ![r] = @ + 1]
    /\ \E ok \in BOOLEAN :
         /\ writer' = [writer EXCEPT ![r] = WriterAfterClose(r, ok)]
         /\ pc' = [pc EXCEPT ![r] = IF CloseResolves(r, ok) THEN "caught" ELSE "final_close"]
    /\ UNCHANGED << previousOutput, seen, partialField, pending, frames >>
    /\ UNCHANGED composeVars

\* line 409: the inner catch closes the writer; if that rejects, the task's promise rejects
FinalClose(r) ==
    /\ pc[r] = "final_close"
    /\ closeAttempts' = [closeAttempts EXCEPT ![r] = @ + 1]
    /\ \E ok \in BOOLEAN :
         /\ writer' = [writer EXCEPT ![r] = WriterAfterClose(r, ok)]
         /\ pc' = [pc EXCEPT ![r] = IF CloseResolves(r, ok) THEN "caught" ELSE "rejected"]
    /\ UNCHANGED << previousOutput, seen, partialField, pending, frames >>
    /\ UNCHANGED composeVars

StreamNext ==
    \E r \in Requests :
        \/ StartStream(r)
        \/ AwaitStream(r)
        \/ NextEvent(r)
        \/ StreamEnd(r)
        \/ StreamThrows(r)
        \/ WriteChunk(r)
        \/ WriteErrorChunk(r)
        \/ WriteDone(r)
        \/ Close(r)
        \/ CatchWriteError(r)
        \/ CatchWriteDone(r)
        \/ CatchClose(r)
        \/ FinalClose(r)

\* one streaming request, every upstream stream of the bounds
StreamSpec == StreamInit /\ [][StreamNext]_vars

-----------------------------------------------------------------------------
(* Two streaming requests served concurrently *)

\* most events the upstream stream of each of the concurrent requests delivers
MaxConcurrentEvents == 2

\* the events of the concurrent requests: snapshots that extend one another or
\* not, partial or final, and an event carrying an error
ConcurrentEvents ==
    { [output |-> [isString |-> TRUE, s |-> << "a" >>], partial |-> "true", error |-> "absent"],
      [output |-> [isString |-> TRUE, s |-> << "a", "b" >>], partial |-> "true", error |-> "absent"],
      [output |-> [isString |-> TRUE, s |-> << "b" >>], partial |-> "false", error |-> "absent"],
      [output |-> [isString |-> FALSE, s |-> << >>], partial |-> "absent", error |-> "truthy"] }

ConcurrentInit ==
    /\ messages = StreamMessages
    /\ cpc = "done"
    /\ fixed_system_prompt_content = << >>
    /\ conversation_message_blocks = ConversationBlocks(StreamMessages, 1)
    /\ remaining_system_limit = SYSTEM_PROMPT_LIMIT
    /\ prompt_history_blocks = ConversationBlocks(StreamMessages, 1)
    /\ system_prompt_history_blocks = << >>
    /\ current_prompt_length = StrLen(Join(ConversationBlocks(StreamMessages, 1)))
    /\ current_system_history_length = 0
    /\ promptFull = FALSE
    /\ systemHistoryFull = FALSE
    /\ i = -1
    /\ system_prompt_history_content = << >>
    /\ final_prompt = Trim(Join(ConversationBlocks(StreamMessages, 1)))
    /\ final_system_prompt = << >>
    /\ pc = [r \in Requests |-> "request"]
    /\ previousOutput = [r \in Requests |-> << >>]
    /\ seen = [r \in Requests |-> << >>]
    /\ partialField = [r \in Requests |-> "absent"]
    /\ pending = [r \in Requests |-> NoFrame]
    /\ frames = [r \in Requests |-> << >>]
    /\ writer = [r \in Requests |-> "writable"]
    /\ closeAttempts = [r \in Requests |-> 0]

\* the loop of one of the concurrent requests takes its next event
NextConcurrentEvent(r) ==
    /\ pc[r] = "next"
    /\ Len(seen[r]) < MaxConcurrentEvents
    /\ \E event \in ConcurrentEvents : LoopBody(r, event)
    /\ UNCHANGED << frames, writer, closeAttempts >>
    /\ UNCHANGED composeVars

\* the tasks of the requests take their steps in any order: a task runs from
\* one await to the next, and at an await the task of another request can run
ConcurrentNext ==
    \E r \in Requests :
        \/ StartStream(r)
        \/ AwaitStream(r)
        \/ NextConcurrentEvent(r)
        \/ StreamEnd(r)
        \/ StreamThrows(r)
        \/ WriteChunk(r)
        \/ WriteErrorChunk(r)
        \/ WriteDone(r)
        \/ Close(r)
        \/ CatchWriteError(r)
        \/ CatchWriteDone(r)
        \/ CatchClose(r)
        \/ FinalClose(r)

\* two streaming requests, their tasks interleaved at the awaits
ConcurrentSpec == ConcurrentInit /\ [][ConcurrentNext]_vars

-----------------------------------------------------------------------------
(* Properties of convertMessagesToFalPrompt *)

NumBlocks == Len(conversation_message_blocks)

\* the k newest conversation blocks, skipping the `skip` newest
NewestBlocks(skip, k) ==
    SubSeq(conversation_message_blocks, NumBlocks - skip - k + 1, NumBlocks - skip)

\* the remaining system budget, as the contract derives it from the fixed text
DerivedSystemBudget ==
    IF StrLen(fixed_system_prompt_content) > 0
    THEN Max(0, SYSTEM_PROMPT_LIMIT - (StrLen(fixed_system_prompt_content) + 4))
    ELSE SYSTEM_PROMPT_LIMIT

\* the length of what follows the fixed text and the separator in system_prompt
HistoryPortionLength ==
    IF StrLen(fixed_system_prompt_content) = 0 THEN StrLen(final_system_prompt)
    ELSE IF StrLen(final_system_prompt) = StrLen(fixed_system_prompt_content) THEN 0
    ELSE StrLen(final_system_prompt) - StrLen(fixed_system_prompt_content) - StrLen(SEPARATOR)

\* C1: the prompt is never longer than PROMPT_LIMIT and the conversation
\* blocks of the system slot are never longer than the derived remaining
\* system budget; both hold after every iteration of the fill loop, and of
\* the two strings returned.
C1_BudgetInvariant ==
    /\ cpc \in {"fill", "assemble", "done"} =>
          /\ StrLen(Join(prompt_history_blocks)) <= PROMPT_LIMIT
          /\ StrLen(Join(system_prompt_history_blocks)) <= DerivedSystemBudget
    /\ cpc = "done" =>
          /\ StrLen(final_prompt) <= PROMPT_LIMIT
          /\ HistoryPortionLength <= DerivedSystemBudget

\* the budgets bind: both slots hold blocks, and an older block is left out
C1_Witness ==
    /\ cpc = "done"
    /\ prompt_history_blocks # << >>
    /\ system_prompt_history_blocks # << >>
    /\ Len(prompt_history_blocks) + Len(system_prompt_history_blocks) < NumBlocks

\* the number of newest blocks, after the `skip` newest, that fit in `budget`
FittingBlocks(skip, budget) ==
    CHOOSE k \in 0..(NumBlocks - skip) :
        /\ StrLen(Join(NewestBlocks(skip, k))) <= budget
        /\ \A j \in (k + 1)..(NumBlocks - skip) : StrLen(Join(NewestBlocks(skip, j))) > budget

\* the blocks kept, oldest first: the system slot, then the prompt slot
KeptBlocks == system_prompt_history_blocks \o prompt_history_blocks

\* C2 as stated: the blocks kept are exactly the K newest, K being the number
\* of newest blocks that fit in the prompt budget plus the system-slot budget.
C2_KeepsAllThatFitCombined ==
    cpc = "done" =>
        KeptBlocks = NewestBlocks(0, FittingBlocks(0, PROMPT_LIMIT + DerivedSystemBudget))

\* the newest blocks that fit the prompt budget, and after them the blocks that
\* fit the system-slot budget
PromptCount == FittingBlocks(0, PROMPT_LIMIT)

SystemCount == IF PromptCount = NumBlocks THEN 0 ELSE FittingBlocks(PromptCount, DerivedSystemBudget)

\* C2, amended: the blocks kept are exactly the K newest, in their original
\* order and never an older one without every newer one, where K = P + S: the
\* P newest blocks that fit together in the prompt budget, and the S next
\* older blocks that fit together in the system-slot budget. K can be less
\* than the number of newest blocks whose total length fits in the sum of the
\* two budgets.
C2_KeepsNewestPerSlot ==
    cpc = "done" =>
        /\ prompt_history_blocks = NewestBlocks(0, PromptCount)
        /\ system_prompt_history_blocks = NewestBlocks(PromptCount, SystemCount)
        /\ final_prompt = Trim(Join(NewestBlocks(0, PromptCount)))
        /\ system_prompt_history_content = Trim(Join(NewestBlocks(PromptCount, SystemCount)))

\* both slots hold blocks and the oldest block is left out
C2_Witness ==
    /\ cpc = "done"
    /\ PromptCount > 0
    /\ SystemCount > 0
    /\ PromptCount + SystemCount < NumBlocks
    /\ Len(KeptBlocks) = PromptCount + SystemCount

\* C6 as stated: with a user or assistant message in the list and a positive
\* PROMPT_LIMIT, the prompt returned is not empty.
C6_PromptNotEmpty ==
    ( /\ cpc = "done"
      /\ \E k \in DOMAIN messages : messages[k].role \in {"user", "assistant"}
      /\ PROMPT_LIMIT > 0 )
    => StrLen(final_prompt) > 0

\* C7: system_prompt is never longer than SYSTEM_PROMPT_LIMIT plus the length
\* of SEPARATOR; the fixed text is never longer than SYSTEM_PROMPT_LIMIT, the
\* history budget is what the fixed text and 4 more characters leave, and
\* what stands between the fixed text and the history is SEPARATOR.
C7_SystemPromptLength ==
    /\ cpc \in {"budget", "fill", "assemble", "done"} =>
          StrLen(fixed_system_prompt_content) <= SYSTEM_PROMPT_LIMIT
    /\ cpc \in {"fill", "assemble", "done"} =>
          remaining_system_limit = DerivedSystemBudget
    /\ cpc = "done" =>
          /\ StrLen(final_system_prompt) <= SYSTEM_PROMPT_LIMIT + StrLen(SEPARATOR)
          /\ (fixed_system_prompt_content # << >> /\ system_prompt_history_content # << >>) =>
                 final_system_prompt =
                     fixed_system_prompt_content \o SEPARATOR \o system_prompt_history_content

\* the separator is inserted and system_prompt is longer than SYSTEM_PROMPT_LIMIT
C7_Witness ==
    /\ cpc = "done"
    /\ StrLen(fixed_system_prompt_content) > 0
    /\ HistoryPortionLength > 0
    /\ StrLen(final_system_prompt) > SYSTEM_PROMPT_LIMIT

\* the roles of the messages that contributed characters to the string s
RolesIn(s) == { messages[s[k].m].role : k \in { j \in DOMAIN s : s[j].m # 0 } }

\* what follows the fixed text in system_prompt
AfterFixed ==
    SubSeq(final_system_prompt, Len(fixed_system_prompt_content) + 1, Len(final_system_prompt))

\* C8: no system message contributes to prompt, no user or assistant message
\* to the fixed system text (system_prompt before the separator), and a
\* message of any other role to neither prompt nor system_prompt.
C8_RolePartition ==
    cpc = "done" =>
        /\ RolesIn(final_prompt) \subseteq {"user", "assistant"}
        /\ SubSeq(final_system_prompt, 1, Len(fixed_system_prompt_content))
               = fixed_system_prompt_content
        /\ RolesIn(fixed_system_prompt_content) \subseteq {"system"}
        /\ RolesIn(AfterFixed) \subseteq {"user", "assistant"}
        /\ \A k \in DOMAIN final_prompt : final_prompt[k].m # 0

\* messages of a system, a conversation and another role were converted
C8_Witness ==
    /\ cpc = "done"
    /\ { messages[k].role : k \in DOMAIN messages } = {"system", "user", "tool"}
    /\ RolesIn(final_prompt) = {"user"}
    /\ RolesIn(final_system_prompt) = {"system"}

-----------------------------------------------------------------------------
(* Properties of the streaming task *)

\* the task of r is between two events or past the loop, every write so far resolved
OnNormalPath(r) == pc[r] \in {"next", "write_done", "close", "finished"}

Snapshot(r, k) == IF k = 0 THEN << >> ELSE seen[r][k].out

NoErrorEvent(r) == \A k \in DOMAIN seen[r] : ~seen[r][k].err

MonotoneSnapshots(r) ==
    \A k \in DOMAIN seen[r] : StartsWith(Snapshot(r, k), Snapshot(r, k - 1))

\* the frames written for event k
FramesOf(r, k) == { j \in DOMAIN frames[r] : frames[r][j].ev = k }

\* the delta text written for event k
WrittenDelta(r, k) ==
    IF \E j \in FramesOf(r, k) : frames[r][j].kind = "chunk"
    THEN frames[r][CHOOSE j \in FramesOf(r, k) : frames[r][j].kind = "chunk"].content
    ELSE << >>

RECURSIVE ConcatDeltas(_)
ConcatDeltas(fs) ==
    IF fs = << >> THEN << >>
    ELSE (IF Head(fs).kind = "chunk" THEN Head(fs).content ELSE << >>) \o ConcatDeltas(Tail(fs))

\* C3: over a stream of non-error events whose snapshots each extend the one
\* before, every delta written is the suffix its event appended, and the deltas
\* written, concatenated in order, are the last snapshot.
C3_DeltaSuffixLaw ==
    \A r \in Requests :
        (OnNormalPath(r) /\ NoErrorEvent(r) /\ MonotoneSnapshots(r)) =>
            /\ \A j \in DOMAIN frames[r] :
                   frames[r][j].kind = "chunk" =>
                       Snapshot(r, frames[r][j].ev - 1) \o frames[r][j].content
                           = Snapshot(r, frames[r][j].ev)
            /\ ConcatDeltas(frames[r]) = Snapshot(r, Len(seen[r]))

\* a stream of three snapshots, the last two each extending the one before by a character
C3_Witness ==
    \E r \in Requests :
        /\ pc[r] = "finished"
        /\ NoErrorEvent(r)
        /\ Len(seen[r]) = 3
        /\ Snapshot(r, 1) = << >>
        /\ Snapshot(r, 2) = << "a" >>
        /\ Snapshot(r, 3) = << "a", "b" >>
        /\ ConcatDeltas(frames[r]) = << "a", "b" >>

\* C4: when the snapshot of event k does not extend the snapshot of event
\* k-1, the delta written for event k is the whole snapshot, previousOutput
\* becomes that snapshot, and the delta of the next event is taken against it.
C4_NonMonotonicRecovery ==
    \A r \in Requests :
        OnNormalPath(r) =>
            \A k \in DOMAIN seen[r] :
                ( /\ ~seen[r][k].err
                  /\ ~StartsWith(Snapshot(r, k), Snapshot(r, k - 1)) ) =>
                    /\ WrittenDelta(r, k) = Snapshot(r, k)
                    /\ Snapshot(r, k) # << >> => Cardinality(FramesOf(r, k)) = 1
                    /\ k = Len(seen[r]) => previousOutput[r] = Snapshot(r, k)
                    /\ (k < Len(seen[r]) /\ ~seen[r][k + 1].err) =>
                           IF StartsWith(Snapshot(r, k + 1), Snapshot(r, k))
                           THEN Snapshot(r, k) \o WrittenDelta(r, k + 1) = Snapshot(r, k + 1)
                           ELSE WrittenDelta(r, k + 1) = Snapshot(r, k + 1)

\* "b", then "a" which does not extend it, then "ab" which extends "a"
C4_Witness ==
    \E r \in Requests :
        /\ pc[r] = "finished"
        /\ Len(seen[r]) = 3
        /\ NoErrorEvent(r)
        /\ Snapshot(r, 1) = << "b" >>
        /\ Snapshot(r, 2) = << "a" >>
        /\ Snapshot(r, 3) = << "a", "b" >>
        /\ WrittenDelta(r, 2) = << "a" >>
        /\ WrittenDelta(r, 3) = << "b" >>

\* the upstream stream has ended and the loop is left
LoopLeft(r) == pc[r] \in {"write_done", "close", "finished"}

\* C5 as stated: the last event of a stream produces exactly one chunk.
C5_LastEventOneChunk ==
    \A r \in Requests :
        (LoopLeft(r) /\ seen[r] # << >>) => Cardinality(FramesOf(r, Len(seen[r]))) = 1

\* C5, amended: every non-error event whose partial field is the boolean false
\* produces exactly one chunk, with finish_reason "stop", even if its delta
\* text is empty (its write resolving); the last event of a stream, when it is
\* not marked so and brings no new text, produces none.
C5_FinalEventOneChunk ==
    \A r \in Requests :
        OnNormalPath(r) =>
            \A k \in DOMAIN seen[r] :
                (~seen[r][k].err /\ ~seen[r][k].partial) =>
                    /\ Cardinality(FramesOf(r, k)) = 1
                    /\ \A j \in FramesOf(r, k) :
                           /\ frames[r][j].kind = "chunk"
                           /\ frames[r][j].finish_reason = "stop"

\* a final event that brings no new text, and the chunk of empty delta written for it
C5_Witness ==
    \E r \in Requests :
        /\ pc[r] = "finished"
        /\ Len(seen[r]) = 2
        /\ NoErrorEvent(r)
        /\ ~seen[r][2].partial
        /\ Snapshot(r, 1) = << "a" >>
        /\ Snapshot(r, 2) = << "a" >>
        /\ \E j \in FramesOf(r, 2) : frames[r][j].content = << >>

\* the snapshot of the last event before event k that carried no error
RECURSIVE SnapshotBefore(_, _)
SnapshotBefore(r, k) ==
    IF k <= 1 THEN << >>
    ELSE IF seen[r][k - 1].err THEN SnapshotBefore(r, k - 1) ELSE seen[r][k - 1].out

\* C9: for an event that carries an error payload the task writes one error
\* chunk and no content delta, leaves previousOutput alone, takes no further
\* event and writes no content chunk afterwards; the error chunk is followed
\* by the [DONE] frame, and by nothing else.
C9_ErrorEventEndsStream ==
    \A r \in Requests :
        \A k \in DOMAIN seen[r] :
            seen[r][k].err =>
                /\ k = Len(seen[r])
                /\ pc[r] \notin {"next", "write_chunk"}
                /\ previousOutput[r] = SnapshotBefore(r, k)
                /\ \A j \in FramesOf(r, k) : frames[r][j] = ErrorChunk(k)
                /\ Cardinality(FramesOf(r, k)) <= 1
                /\ \A j \in FramesOf(r, k) :
                       \A l \in DOMAIN frames[r] : l > j => frames[r][l].kind # "chunk"
                /\ pc[r] = "write_done" =>
                       /\ frames[r] # << >>
                       /\ frames[r][Len(frames[r])] = ErrorChunk(k)
                /\ pc[r] \in {"close", "finished"} =>
                       /\ Len(frames[r]) >= 2
                       /\ frames[r][Len(frames[r]) - 1] = ErrorChunk(k)
                       /\ frames[r][Len(frames[r])] = DoneFrame

\* a content chunk, then an error event: its error chunk and [DONE] are written
C9_Witness ==
    \E r \in Requests :
        /\ pc[r] = "finished"
        /\ Len(seen[r]) = 2
        /\ seen[r][2].err
        /\ previousOutput[r] = << "a" >>
        /\ Len(frames[r]) = 3
        /\ frames[r][1].kind = "chunk"
        /\ frames[r][2].kind = "error_chunk"
        /\ frames[r][3].kind = "done"

\* the task of r has ended
Ended(r) == pc[r] \in {"finished", "caught", "rejected"}

\* C10: on every exit path of the task writer.close() was called at least
\* once, and the outbound stream is not left open: it is closed, or errored.
C10_CloseOnEveryExit ==
    \A r \in Requests :
        Ended(r) => (closeAttempts[r] >= 1 /\ writer[r] # "writable")

\* a chunk was written, a later write rejected, the write of the error frame
\* rejected too, and the inner catch called close
C10_Witness ==
    \E r \in Requests :
        /\ pc[r] = "rejected"
        /\ closeAttempts[r] = 1
        /\ frames[r] # << >>
        /\ \A j \in DOMAIN frames[r] : frames[r][j].kind = "chunk"

\* C11: within one request every event has at most one frame written for it,
\* the frames are written in the order of their events, and while the write
\* built for an event is awaited the loop takes no further event.
C11_OneChunkPerEventInOrder ==
    \A r \in Requests :
        /\ \A k \in DOMAIN seen[r] : Cardinality(FramesOf(r, k)) <= 1
        /\ \A j \in DOMAIN frames[r] : frames[r][j].ev <= Len(seen[r])
        /\ \A j1, j2 \in DOMAIN frames[r] :
               (j1 < j2 /\ frames[r][j1].ev > 0 /\ frames[r][j2].ev > 0) =>
                   frames[r][j1].ev < frames[r][j2].ev
        /\ pending[r] # NoFrame =>
               /\ pc[r] \in {"write_chunk", "write_error_chunk"}
               /\ pending[r].ev = Len(seen[r])
               /\ FramesOf(r, Len(seen[r])) = {}
        /\ pc[r] \in {"write_chunk", "write_error_chunk"} => pending[r] # NoFrame

\* three events, a chunk written for each, in their order, then [DONE]
C11_Witness ==
    \E r \in Requests :
        /\ pc[r] = "finished"
        /\ Len(seen[r]) = 3
        /\ Len(frames[r]) = 4
        /\ \A k \in 1..3 : frames[r][k].kind = "chunk" /\ frames[r][k].ev = k
        /\ frames[r][4] = DoneFrame

-----------------------------------------------------------------------------
(* Properties of concurrent streaming requests *)

\* the delta a task running alone computes for event k of the events r has seen
AloneDelta(r, k) == DeltaContent(SnapshotBefore(r, k), seen[r][k].out)

\* whether a task running alone builds a frame for event k
AloneEmits(r, k) == seen[r][k].err \/ EmitsChunk(AloneDelta(r, k), seen[r][k].partial)

\* the frame a task running alone builds for event k
AloneFrame(r, k) ==
    IF seen[r][k].err THEN ErrorChunk(k)
    ELSE ContentChunk(AloneDelta(r, k), seen[r][k].partial, k)

\* C12: with the tasks of two requests interleaved at their awaits, each request
\* writes the frames a task running alone would write for the events it has
\* seen, and its previousOutput is its own last snapshot: neither depends on
\* what the other request has seen.
C12_RequestsIsolated ==
    \A r \in Requests :
        /\ previousOutput[r] = SnapshotBefore(r, Len(seen[r]) + 1)
        /\ \A j \in DOMAIN frames[r] :
               frames[r][j].ev > 0 =>
                   /\ AloneEmits(r, frames[r][j].ev)
                   /\ frames[r][j] = AloneFrame(r, frames[r][j].ev)
        /\ pending[r] # NoFrame => pending[r] = AloneFrame(r, Len(seen[r]))
        /\ OnNormalPath(r) =>
               \A k \in DOMAIN seen[r] : AloneEmits(r, k) <=> FramesOf(r, k) # {}

C12_Witness ==
    /\ pc[1] = "write_chunk"
    /\ pc[2] = "write_chunk"
    /\ Len(frames[1]) = 1
    /\ Len(frames[2]) = 1
    /\ previousOutput[1] = << "a", "b" >>
    /\ previousOutput[2] = << "b" >>
    /\ pending[1].content = << "b" >>
    /\ pending[2].content = << "b" >>
    /\ Snapshot(2, 1) = << "a", "b" >>

-----------------------------------------------------------------------------
(* The [DONE] frame *)

\* the places of the [DONE] frames among the frames written
DoneFrames(r) == { j \in DOMAIN frames[r] : frames[r][j].kind = "done" }

\* C13: when the loop is left without an exception, by the end of the upstream
\* stream or by the break after an error chunk, the writer is still writable
\* and no [DONE] frame is written yet when the task comes to write it; once
\* that write resolves there is exactly one [DONE] frame, it is the last frame,
\* every frame before it is a chunk of the stream, and the writer is closed
\* only after it.
C13_OneDoneAfterChunks ==
    \A r \in Requests :
        /\ pc[r] = "write_done" =>
               /\ DoneFrames(r) = {}
               /\ writer[r] = "writable"
               /\ closeAttempts[r] = 0
        /\ pc[r] \in {"close", "finished"} =>
               /\ DoneFrames(r) = { Len(frames[r]) }
               /\ \A j \in 1 .. Len(frames[r]) - 1 :
                      frames[r][j].kind \in {"chunk", "error_chunk"}
               /\ \A j \in 1 .. Len(frames[r]) - 1 : frames[r][j] # frames[r][Len(frames[r])]
               /\ closeAttempts[r] = (IF pc[r] = "close" THEN 0 ELSE 1)

C13_Witness ==
    /\ pc[1] = "finished"
    /\ Len(seen[1]) = 2
    /\ NoErrorEvent(1)
    /\ Len(frames[1]) = 3
    /\ frames[1][1].kind = "chunk"
    /\ frames[1][2].kind = "chunk"
    /\ frames[1][3] = DoneFrame
    /\ writer[1] = "closed"

-----------------------------------------------------------------------------
(* When a content chunk is written *)

\* the test of the claim on the last event: new text, or a partial field that is the boolean false
ChunkDue(r) == AloneDelta(r, Len(seen[r])) # << >> \/ partialField[r] = "false"

\* C14: for every event without an error a content chunk is written if and
\* only if its delta is non-empty or its partial field is the boolean false; an
\* event whose partial field is absent or no boolean and that brings no new
\* text writes nothing. The chunk carries the delta, and its finish_reason is
\* "stop" exactly when the partial field is the boolean false, null otherwise.
\* Stated of the event the loop body last ran on, which every event once is.
C14_ChunkIffTextOrFinal ==
    \A r \in Requests :
        (seen[r] # << >> /\ ~seen[r][Len(seen[r])].err) =>
            /\ seen[r][Len(seen[r])].partial = (partialField[r] # "false")
            /\ \A j \in FramesOf(r, Len(seen[r])) :
                   /\ ChunkDue(r)
                   /\ frames[r][j].kind = "chunk"
                   /\ frames[r][j].content = AloneDelta(r, Len(seen[r]))
                   /\ frames[r][j].finish_reason =
                          (IF partialField[r] = "false" THEN "stop" ELSE "null")
            /\ OnNormalPath(r) => (ChunkDue(r) <=> FramesOf(r, Len(seen[r])) # {})
            /\ pc[r] = "write_chunk" <=> (ChunkDue(r) /\ pending[r] # NoFrame)
            /\ pc[r] = "write_chunk" =>
                   pending[r].finish_reason =
                       (IF partialField[r] = "false" THEN "stop" ELSE "null")

C14_Witness ==
    /\ pc[1] = "next"
    /\ Len(seen[1]) = 2
    /\ Snapshot(1, 1) = << "a" >>
    /\ Snapshot(1, 2) = << "a" >>
    /\ ~seen[1][2].err
    /\ partialField[1] = "absent"
    /\ frames[1] = << ContentChunk(<< "a" >>, TRUE, 1) >>

\* an event whose partial field is false and that brings no new text has its chunk written
C14_FinalWitness ==
    /\ pc[1] = "next"
    /\ Len(seen[1]) = 2
    /\ Snapshot(1, 1) = << "a" >>
    /\ Snapshot(1, 2) = << "a" >>
    /\ partialField[1] = "false"
    /\ frames[1][2] = [kind |-> "chunk", content |-> << >>, finish_reason |-> "stop", ev |-> 2]

-----------------------------------------------------------------------------
(* Properties of the fill loop *)

\* the places of conversation block k in the prompt slot and in the system slot
InPromptSlot(k) ==
    { j \in DOMAIN prompt_history_blocks :
        prompt_history_blocks[j] = conversation_message_blocks[k] }

InSystemSlot(k) ==
    { j \in DOMAIN system_prompt_history_blocks :
        system_prompt_history_blocks[j] = conversation_message_blocks[k] }

\* the blocks the fill loop has gone through
Visited == (i + 2) .. NumBlocks

\* C15: every element of either slot is one whole conversation block the loop
\* has gone through, no block is in both slots or twice in one, and a slot's
\* text is its blocks joined, none of them cut.
C15_BlocksWholeOrOmitted ==
    cpc \in {"fill", "assemble", "done"} =>
        /\ \A j \in DOMAIN prompt_history_blocks : \E k \in Visited : j \in InPromptSlot(k)
        /\ \A j \in DOMAIN system_prompt_history_blocks : \E k \in Visited : j \in InSystemSlot(k)
        /\ \A k \in 1 .. NumBlocks :
               Cardinality(InPromptSlot(k)) + Cardinality(InSystemSlot(k)) <= 1
        /\ current_prompt_length = StrLen(Join(prompt_history_blocks))
        /\ current_system_history_length = StrLen(Join(system_prompt_history_blocks))
        /\ cpc = "done" =>
               /\ final_prompt = Trim(Join(prompt_history_blocks))
               /\ system_prompt_history_content = Trim(Join(system_prompt_history_blocks))

\* one block in each of the three states: in the prompt slot, in the system slot, omitted
C15_Witness ==
    /\ cpc = "done"
    /\ NumBlocks = 3
    /\ InPromptSlot(3) # {}
    /\ InSystemSlot(2) # {}
    /\ InPromptSlot(1) = {}
    /\ InSystemSlot(1) = {}

\* the block the iteration at i is about
OfferedLength == StrLen(conversation_message_blocks[i + 1])

PromptSlotLength == StrLen(Join(prompt_history_blocks))

SystemSlotLength == StrLen(Join(system_prompt_history_blocks))

\* one iteration of the fill loop, as the claim states it
LatchedFill ==
    /\ promptFull => (promptFull' /\ prompt_history_blocks' = prompt_history_blocks)
    /\ systemHistoryFull =>
           (systemHistoryFull' /\ system_prompt_history_blocks' = system_prompt_history_blocks)
    /\ (promptFull /\ systemHistoryFull) => cpc' = "assemble"
    /\ (~promptFull /\ PromptSlotLength + OfferedLength <= PROMPT_LIMIT) =>
           /\ prompt_history_blocks' # prompt_history_blocks
           /\ system_prompt_history_blocks' = system_prompt_history_blocks
           /\ ~promptFull'
           /\ systemHistoryFull' = systemHistoryFull
    /\ (~promptFull /\ PromptSlotLength + OfferedLength > PROMPT_LIMIT) =>
           /\ promptFull'
           /\ prompt_history_blocks' = prompt_history_blocks
    /\ (promptFull' /\ prompt_history_blocks' = prompt_history_blocks /\ ~systemHistoryFull) =>
           IF SystemSlotLength + OfferedLength <= DerivedSystemBudget
           THEN system_prompt_history_blocks' # system_prompt_history_blocks /\ ~systemHistoryFull'
           ELSE system_prompt_history_blocks' = system_prompt_history_blocks /\ systemHistoryFull'

\* C16: the flags are latched and each gates its own slot. A slot is marked
\* full the first time a block offered to it does not fit, the system slot
\* starts full when its derived budget is 0, a full slot stays full and takes
\* no later block, the system slot takes the blocks that fit while the prompt
\* slot is full, and once both are full nothing more is placed.
C16_LatchedFullFlags ==
    [][ /\ (cpc = "budget" /\ cpc' = "fill") =>
               (~promptFull' /\ systemHistoryFull' = (DerivedSystemBudget = 0))
        /\ (cpc = "fill" /\ i >= 0) => LatchedFill
        /\ (cpc = "fill" /\ i < 0) =>
               UNCHANGED << prompt_history_blocks, system_prompt_history_blocks,
                            promptFull, systemHistoryFull >>
        /\ cpc \in {"assemble", "done"} =>
               UNCHANGED << prompt_history_blocks, system_prompt_history_blocks,
                            promptFull, systemHistoryFull >> ]_vars

\* the prompt slot was marked full by a block the system slot took, and an
\* older block that would fit the prompt slot's remaining budget is left out
C16_Witness ==
    /\ cpc = "done"
    /\ NumBlocks = 3
    /\ promptFull
    /\ systemHistoryFull
    /\ InPromptSlot(3) # {}
    /\ InSystemSlot(2) # {}
    /\ InPromptSlot(1) = {}
    /\ InSystemSlot(1) = {}
    /\ PromptSlotLength + StrLen(conversation_message_blocks[1]) <= PROMPT_LIMIT

-----------------------------------------------------------------------------
(* The assembled system_prompt *)

\* the trimmed system text, from the messages: every system message's content
\* followed by two newlines, cut at SYSTEM_PROMPT_LIMIT, trimmed
FixedText == TruncatedSystem(SystemAccumulator(messages, Len(messages)))

\* the system-slot history: its blocks joined and trimmed
SystemHistoryText == Trim(Join(system_prompt_history_blocks))

\* the characters of s, whatever message contributed them
Untagged(s) == Tagged(s, 0)

\* whether the text `sub` occurs in the text `s`; the runs of SEPARATOR are
\* never split or merged by the operations of the model
RECURSIVE OccursIn(_, _)
OccursIn(sub, s) ==
    IF Len(s) < Len(sub) THEN FALSE
    ELSE SubSeq(Untagged(s), 1, Len(sub)) = Untagged(sub) \/ OccursIn(sub, Tail(s))

\* the four cases of the assembly
AssembledByCase ==
    /\ fixed_system_prompt_content = FixedText
    /\ (StrLen(FixedText) > 0 /\ StrLen(SystemHistoryText) > 0) =>
           final_system_prompt = FixedText \o SEPARATOR \o SystemHistoryText
    /\ (StrLen(FixedText) > 0 /\ StrLen(SystemHistoryText) = 0) =>
           final_system_prompt = FixedText
    /\ (StrLen(FixedText) = 0 /\ StrLen(SystemHistoryText) > 0) =>
           final_system_prompt = SystemHistoryText
    /\ (StrLen(FixedText) = 0 /\ StrLen(SystemHistoryText) = 0) =>
           final_system_prompt = << >>

\* C17 as stated: system_prompt is fixed + SEPARATOR + system_history when both
\* are non-empty, the non-empty one alone when one is, and empty when both
\* are; and the text of SEPARATOR occurs in system_prompt only when a system
\* message exists and a conversation block is in the system slot.
C17_SeparatorOnlyBetweenParts ==
    cpc = "done" =>
        /\ AssembledByCase
        /\ OccursIn(SEPARATOR, final_system_prompt) =>
               /\ \E m \in DOMAIN messages : messages[m].role = "system"
               /\ system_prompt_history_blocks # << >>

\* what follows the fixed text in system_prompt
AfterFixedText ==
    SubSeq(final_system_prompt, Len(FixedText) + 1, Len(final_system_prompt))

\* the assembly has put SEPARATOR after the fixed text: its runs are there,
\* contributed by no message
SeparatorInserted ==
    /\ StrLen(FixedText) > 0
    /\ Len(AfterFixedText) >= Len(SEPARATOR)
    /\ SubSeq(AfterFixedText, 1, Len(SEPARATOR)) = SEPARATOR

\* C17, amended: system_prompt is fixed + SEPARATOR + system_history when both
\* are non-empty, the non-empty one alone when one is, and empty when both
\* are. The assembly inserts SEPARATOR exactly when a system message gave a
\* non-empty fixed text and a conversation block is in the system slot; the
\* text of SEPARATOR can also occur inside a message's content, which is
\* copied as it is.
C17_SystemPromptAssembly ==
    cpc = "done" =>
        /\ AssembledByCase
        /\ SeparatorInserted <=>
               /\ \E m \in DOMAIN messages : messages[m].role = "system"
               /\ StrLen(FixedText) > 0
               /\ system_prompt_history_blocks # << >>

\* a system text and conversation blocks in the system slot, joined by SEPARATOR
C17_Witness ==
    /\ cpc = "done"
    /\ StrLen(fixed_system_prompt_content) > 0
    /\ system_prompt_history_blocks # << >>
    /\ SeparatorInserted
    /\ final_system_prompt = fixed_system_prompt_content \o SEPARATOR \o system_prompt_history_content

-----------------------------------------------------------------------------
(* The order of the blocks kept *)

\* the conversation blocks in the prompt slot, in the system slot, in either
PromptIndexes == { k \in 1 .. NumBlocks : InPromptSlot(k) # {} }

SystemIndexes == { k \in 1 .. NumBlocks : InSystemSlot(k) # {} }

Placed == PromptIndexes \cup SystemIndexes

\* C18: the blocks placed are a contiguous suffix of the conversation blocks,
\* every block of the system slot is older than every block of the prompt
\* slot, and the system slot followed by the prompt slot is that suffix in its
\* original order; so it is after every iteration of the fill loop.
C18_KeptSuffixInOrder ==
    cpc \in {"fill", "assemble", "done"} =>
        /\ \A k \in Placed : \A j \in (k + 1) .. NumBlocks : j \in Placed
        /\ \A a \in SystemIndexes : \A b \in PromptIndexes : a < b
        /\ system_prompt_history_blocks \o prompt_history_blocks =
               SubSeq(conversation_message_blocks,
                      NumBlocks - Cardinality(Placed) + 1, NumBlocks)
        /\ prompt_history_blocks =
               SubSeq(conversation_message_blocks,
                      NumBlocks - Cardinality(PromptIndexes) + 1, NumBlocks)

\* two blocks in the system slot, older than the block of the prompt slot
C18_Witness ==
    /\ cpc = "done"
    /\ NumBlocks = 3
    /\ SystemIndexes = {1, 2}
    /\ PromptIndexes = {3}
    /\ system_prompt_history_blocks =
           << conversation_message_blocks[1], conversation_message_blocks[2] >>

\* C19: on every path, those where a write or a close rejects included, at
\* most one [DONE] frame is written and no frame is written after it.
C19_DoneOnceAndLast ==
    \A r \in Requests :
        /\ Cardinality(DoneFrames(r)) <= 1
        /\ \A j \in DoneFrames(r) : j = Len(frames[r])

\* [DONE] is written, close() rejects, and the catch block's frames are refused
C19_Witness ==
    /\ pc[1] = "rejected"
    /\ closeAttempts[1] = 2
    /\ writer[1] = "errored"
    /\ Len(frames[1]) = 2
    /\ frames[1][1].kind = "chunk"
    /\ frames[1][2] = DoneFrame

-----------------------------------------------------------------------------
(* Events that carry no output text *)

\* the last non-empty snapshot among the first k events
RECURSIVE LastNonEmpty(_, _)
LastNonEmpty(r, k) ==
    IF k = 0 THEN << >>
    ELSE IF Snapshot(r, k) # << >> THEN Snapshot(r, k) ELSE LastNonEmpty(r, k - 1)

\* every non-empty snapshot extends the non-empty snapshot before it
NonEmptyMonotone(r) ==
    \A k \in DOMAIN seen[r] :
        Snapshot(r, k) # << >> => StartsWith(Snapshot(r, k), LastNonEmpty(r, k - 1))

\* C20: over a stream of non-error events whose non-empty snapshots each
\* extend the non-empty snapshot before, events without output text between
\* them cause nothing to be written again: the deltas written, concatenated in
\* order, are the last non-empty snapshot.
C20_EmptySnapshotNoReemission ==
    \A r \in Requests :
        (OnNormalPath(r) /\ NoErrorEvent(r) /\ NonEmptyMonotone(r)) =>
            ConcatDeltas(frames[r]) = LastNonEmpty(r, Len(seen[r]))

====
